---- MODULE Spec2Model ----
(***************************************************************************)
(* Model of the Domain connection manager (class Domain) of vircadia-web:  *)
(* connect / disconnect / the transport's state-change callback, the       *)
(* persisted URL, and the URL normalisation cleanDomainUrl.                *)
(* Strings that the code inspects (URLs) are sequences of one-character    *)
(* strings; strings the code only passes along (info) are opaque.          *)
(***************************************************************************)
EXTENDS Integers, Sequences, FiniteSets, TLC

\* ---------------------------------------------------------------- bounds
\* Number of DomainServer objects the manager may construct in one run.
MaxSessions == 2
\* Number of state reports the transport may deliver in one run.
MaxReports == 2
\* Number of pieces an input URL of the normalisation check is made of.
MaxPieces == 4
\* Number of times the normalisation check applies cleanDomainUrl in a row.
MaxCleanCalls == 2
\* Number of direct calls of ShapeEntityBuilder.build in one run.
MaxBuilds == 3
\* Number of Entity Records in one dispatched batch.
MaxBatch == 3
\* Number of timers of the first-time-setup wizard pending at once.
MaxTimers == 4

\* ------------------------------------------------- ConnectionState (SDK)
DISCONNECTED == 0
CONNECTING == 1
CONNECTED == 2
REFUSED == 3
ERROR == 4
ConnectionState == {DISCONNECTED, CONNECTING, CONNECTED, REFUSED, ERROR}

\* DomainServer.stateToString: the display string of a raw state.
stateToString(pState) ==
    CASE pState = DISCONNECTED -> "DISCONNECTED"
      [] pState = CONNECTING -> "CONNECTING"
      [] pState = CONNECTED -> "CONNECTED"
      [] pState = REFUSED -> "REFUSED"
      [] pState = ERROR -> "ERROR"

\* A Nullable<> field that holds nothing; object references are 1, 2, ...
Undefined == 0

\* ------------------------------------------------------------ strings
Digits == {"0", "1", "2", "3", "4", "5", "6", "7", "8", "9"}

\* String.prototype.toLowerCase on one character of the alphabet used here.
LowerChar(c) ==
    CASE c = "A" -> "a"
      [] c = "H" -> "h"
      [] c = "T" -> "t"
      [] c = "P" -> "p"
      [] c = "S" -> "s"
      [] c = "W" -> "w"
      [] OTHER -> c

toLowerCase(s) == [i \in 1..Len(s) |-> LowerChar(s[i])]

startsWith(s, p) == Len(s) >= Len(p) /\ SubSeq(s, 1, Len(p)) = p

\* s.substring(n): s without its first n characters.
substring(s, n) == SubSeq(s, n + 1, Len(s))

\* (/:\d*$/u).exec(s) is an array: some ':' of s is followed by digits only
\* (possibly none) up to the end of s.
ifPort(s) ==
    \E i \in 1..Len(s) :
        s[i] = ":" /\ \A j \in (i + 1)..Len(s) : s[j] \in Digits

HttpPrefix == <<"h", "t", "t", "p", ":", "/", "/">>
HttpsPrefix == <<"h", "t", "t", "p", "s", ":", "/", "/">>
WsPrefix == <<"w", "s", ":", "/", "/">>

\* Config.getItem(DEFAULT_DOMAIN_PROTOCOL) and Config.getItem(DEFAULT_DOMAIN_PORT)
DefaultDomainProtocol == <<"w", "s", ":">>
DefaultDomainPort == <<"4", "0", "1", "0", "2">>

\* cleanDomainUrl without the test for a port on the end.
cleanDomainUrlAlwaysPort(pUrl) ==
    LET url0 == toLowerCase(pUrl)
        url1 == IF startsWith(url0, HttpPrefix) THEN substring(url0, 7) ELSE url0
        url2 == IF startsWith(url1, HttpsPrefix) THEN substring(url1, 8) ELSE url1
        url3 == IF ~startsWith(url2, WsPrefix)
                THEN DefaultDomainProtocol \o <<"/", "/">> \o url2
                ELSE url2
    IN  url3 \o <<":">> \o DefaultDomainPort

\* cleanDomainUrl without the step that strips "https://".
\* The protocol rule and the port rule of cleanDomainUrl, applied to url.
protocolAndPort(url) ==
    LET url3 == IF ~startsWith(url, WsPrefix)
                THEN DefaultDomainProtocol \o <<"/", "/">> \o url
                ELSE url
    IN  IF ~ifPort(url3) THEN url3 \o <<":">> \o DefaultDomainPort ELSE url3

cleanDomainUrlKeepHttps(pUrl) ==
    LET url0 == toLowerCase(pUrl)
        url1 == IF startsWith(url0, HttpPrefix) THEN substring(url0, 7) ELSE url0
        url3 == IF ~startsWith(url1, WsPrefix)
                THEN DefaultDomainProtocol \o <<"/", "/">> \o url1
                ELSE url1
        url4 == IF ~ifPort(url3) THEN url3 \o <<":">> \o DefaultDomainPort ELSE url3
    IN  url4

cleanDomainUrl(pUrl) ==
    LET url0 == toLowerCase(pUrl)
        url1 == IF startsWith(url0, HttpPrefix) THEN substring(url0, 7) ELSE url0
        url2 == IF startsWith(url1, HttpsPrefix) THEN substring(url1, 8) ELSE url1
        url3 == IF ~startsWith(url2, WsPrefix)
                THEN DefaultDomainProtocol \o <<"/", "/">> \o url2
                ELSE url2
        url4 == IF ~ifPort(url3) THEN url3 \o <<":">> \o DefaultDomainPort ELSE url3
    IN  url4


\* DomainPersist.DOMAIN_URL is the only key of the Config store the manager
\* writes; `config` is the item stored under it.
NoItem == [has |-> FALSE, value |-> <<>>]
ConfigSetItem(value) == [has |-> TRUE, value |-> value]
ConfigGetItem(item, default) == IF item.has THEN item.value ELSE default

UNKNOWN == <<"U", "N", "K", "N", "O", "W", "N">>

\* ------------------------------------------------------- model inputs
\* URLs the callers of connect pass in.
ConnectUrls ==
    { <<"a">>,
      <<"H", "T", "T", "P", ":", "/", "/", "a", ":", "4">> }

\* The info strings the transport passes with a state.
Infos(pState) == IF pState = REFUSED THEN {"", "refused by server"} ELSE {""}

\* What the transport does with the callback inside DomainServer.connect:
\* nothing, or it reports that it has started connecting.
ConnectReports == {<<>>, <<<<CONNECTING, "">>>>}

\* What the transport does with the callback inside DomainServer.disconnect:
\* nothing, or it reports that it is disconnected.
DisconnectReports == {<<>>, <<<<DISCONNECTED, "">>>>}

\* The message of the Error thrown by connect on a live session.
AlreadyConnected == "Attempt to connect to domain when already connected"
NoError == ""

\* ---------------------------------------------------------------- state
VARIABLES
    domainUrl,          \* Domain.#_domainUrl
    domain,             \* Domain.#_domain: Undefined or the DomainServer held
    audioClient,        \* Domain.#_audioClient: Undefined or the contextID
                        \*   the DomainAudio was constructed with
    emitted,            \* the calls of onStateChange.emit, in order
    config,             \* the Config item under DomainPersist.DOMAIN_URL
    made,               \* number of DomainServer objects constructed so far
    sessions,           \* the DomainServer objects, by reference; the state
                        \*   of one the manager has dropped is not kept,
                        \*   nothing can read it
    reported,           \* the (state, info) pairs the transport has passed
                        \*   to onStateChanged, in order
    lastCall,           \* the operation that ran last and how it ended
    observedConnected,  \* the handler has seen CONNECTED since the last
                        \*   DomainServer was constructed
    lifeConnected,      \* the held DomainServer itself has reported CONNECTED
    lifeBuilt,          \* DomainAudio constructions since the last
                        \*   DomainServer was constructed
    urlIn,              \* normalisation check: the input string
    urlPrev,            \* normalisation check: the argument of the last call
    urlOut,             \* normalisation check: the result of the last call
    cleanCalls,         \* normalisation check: calls of cleanDomainUrl so far
    gameObjects,        \* the GameObjects, by identifier: each the sequence
                        \*   of the components added to it
    buildCalls,         \* the calls build(gameObject, entity) made, in order
    batch,              \* dispatch: the Entity Records that arrived
    pos,                \* dispatch: number of records of batch handled
    raised,             \* dispatch: the conditions raised, in order
    showInitialWelcome, \* wizard: the welcome screen is rendered
    transition,         \* wizard: the colour splash is in its opened style
    step,               \* wizard: the step the stepper shows
    timers,             \* wizard: timeouts set and not yet run
    wizardLast          \* wizard: the handler that ran last

domainVars ==
    <<domainUrl, domain, audioClient, emitted, config, made, sessions,
      reported, lastCall, observedConnected, lifeConnected, lifeBuilt>>
cleanVars == <<urlIn, urlPrev, urlOut, cleanCalls>>
buildVars == <<gameObjects, buildCalls, batch, pos, raised>>
wizardVars == <<showInitialWelcome, transition, step, timers, wizardLast>>
vars == <<domainVars, cleanVars, buildVars, wizardVars>>

\* data() of the wizard component, and nothing done to it yet.
WizardIdle ==
    /\ showInitialWelcome = TRUE
    /\ transition = FALSE
    /\ step = 1
    /\ timers = 0
    /\ wizardLast = "mounted"

\* No GameObject exists and no record has arrived.
BuildIdle ==
    /\ gameObjects = <<>>
    /\ buildCalls = <<>>
    /\ batch = <<>>
    /\ pos = 0
    /\ raised = <<>>

\* A DomainServer the manager has not constructed yet.
NoDomainServer ==
    [state |-> DISCONNECTED, onStateChanged |-> FALSE, connects |-> <<>>,
     disconnects |-> 0]

\* new DomainServer(): not connected, no callback set.
NewDomainServer ==
    [state |-> DISCONNECTED, onStateChanged |-> FALSE, connects |-> <<>>,
     disconnects |-> 0]

\* The context handle of a DomainServer; it identifies the object.
contextID(s) == s

\* ---------------------------------------------------------------- getters
DomainUrl == domainUrl

DomainState ==
    IF domain # Undefined THEN sessions[domain].state ELSE DISCONNECTED

\* DomainStateAsString answering from the last state the Signal emitted.
DomainStateAsStringLastEmitted ==
    IF emitted # <<>>
    THEN emitted[Len(emitted)].newState
    ELSE stateToString(DISCONNECTED)

DomainStateAsString ==
    IF domain # Undefined
    THEN stateToString(sessions[domain].state)
    ELSE stateToString(DISCONNECTED)

\* isConnected answering from the presence of the audio client.
isConnectedByAudio == domain # Undefined /\ audioClient # Undefined

isConnected ==
    IF domain # Undefined THEN sessions[domain].state = CONNECTED ELSE FALSE

\* ---------------------------------------------------------------- handler
\* _handleOnDomainStateChange(pState, pInfo) run on a manager whose fields are
\* dom, audio and whose Signal has emitted em: the fields after it, and (seen)
\* the audio client the manager holds while the subscribers of the Signal run.
\* The handler emitting only when the state differs from the last one emitted.
handleOnDomainStateChangeCoalescing(dom, audio, em, pState, pInfo) ==
    [audioClient |->
        IF pState = CONNECTED /\ dom # Undefined /\ audio = Undefined
        THEN dom
        ELSE audio,
     emitted |->
        IF em # <<>> /\ em[Len(em)].newState = stateToString(pState)
        THEN em
        ELSE Append(em, [d |-> "this", newState |-> stateToString(pState),
                         info |-> pInfo]),
     seen |->
        IF pState = CONNECTED /\ dom # Undefined /\ audio = Undefined
        THEN dom
        ELSE audio]

\* The handler emitting the Signal first and setting up the audio client after.
handleOnDomainStateChangeEmitFirst(dom, audio, em, pState, pInfo) ==
    [audioClient |->
        IF pState = CONNECTED /\ dom # Undefined /\ audio = Undefined
        THEN dom
        ELSE audio,
     emitted |->
        Append(em, [d |-> "this", newState |-> stateToString(pState),
                    info |-> pInfo]),
     seen |-> audio]

\* The handler dropping a report that arrives while no session is held.
handleOnDomainStateChangeIgnoringStale(dom, audio, em, pState, pInfo) ==
    [audioClient |->
        IF pState = CONNECTED /\ dom # Undefined /\ audio = Undefined
        THEN contextID(dom)
        ELSE audio,
     emitted |->
        IF dom = Undefined THEN em
        ELSE Append(em, [d |-> "this", newState |-> stateToString(pState),
                         info |-> pInfo]),
     seen |->
        IF pState = CONNECTED /\ dom # Undefined /\ audio = Undefined
        THEN contextID(dom)
        ELSE audio]

handleOnDomainStateChange(dom, audio, em, pState, pInfo) ==
    [audioClient |->
        IF pState = CONNECTED /\ dom # Undefined /\ audio = Undefined
        THEN contextID(dom)
        ELSE audio,
     emitted |->
        Append(em, [d |-> "this", newState |-> stateToString(pState),
                    info |-> pInfo]),
     seen |->
        IF pState = CONNECTED /\ dom # Undefined /\ audio = Undefined
        THEN contextID(dom)
        ELSE audio]

\* The handler run over the reports the transport makes inside one call.
handleSync(dom, audio, em, sync) ==
    IF sync = <<>>
    THEN [audioClient |-> audio, emitted |-> em, seen |-> audio]
    ELSE handleOnDomainStateChange(dom, audio, em, sync[1][1], sync[1][2])

HasConnected(sync) == \E i \in 1..Len(sync) : sync[i][1] = CONNECTED

\* ------------------------------------------------------------------ Init
Init ==
    /\ config \in {NoItem, ConfigSetItem(cleanDomainUrl(<<"a">>))}
    /\ domainUrl = ConfigGetItem(config, UNKNOWN)
    /\ domain = Undefined
    /\ audioClient = Undefined
    /\ emitted = <<>>
    /\ made = 0
    /\ sessions = [s \in 1..MaxSessions |-> NoDomainServer]
    /\ reported = <<>>
    /\ lastCall = [op |-> "constructor", arg |-> <<>>, live |-> FALSE,
                   error |-> NoError]
    /\ observedConnected = FALSE
    /\ lifeConnected = FALSE
    /\ lifeBuilt = 0
    /\ urlIn = <<>>
    /\ urlPrev = <<>>
    /\ urlOut = <<>>
    /\ cleanCalls = 0
    /\ BuildIdle
    /\ WizardIdle

\* connect that returns only once the transport has reported a state.
ConnectBodyAwaiting(pUrl, sync) ==
    /\ sync # <<>>
    /\ made < MaxSessions
    /\ Len(reported) + Len(sync) <= MaxReports
    /\ LET s == made + 1
           h == handleSync(s, audioClient, emitted, sync)
       IN  /\ domainUrl' = cleanDomainUrl(pUrl)
           /\ made' = s
           /\ domain' = s
           /\ sessions' =
                [sessions EXCEPT ![s] =
                    [NewDomainServer EXCEPT
                        !.onStateChanged = TRUE,
                        !.connects = <<cleanDomainUrl(pUrl)>>,
                        !.state = sync[1][1]]]
           /\ audioClient' = h.audioClient
           /\ emitted' = h.emitted
           /\ reported' = reported \o sync
           /\ observedConnected' = HasConnected(sync)
           /\ lifeConnected' = HasConnected(sync)
           /\ lifeBuilt' = IF h.audioClient # audioClient THEN 1 ELSE 0
           /\ UNCHANGED config

\* connect issuing the session's connect before it sets onStateChanged: what
\* the transport reports inside DomainServer.connect reaches no handler.
ConnectBodyLateRegistration(pUrl, sync) ==
    /\ made < MaxSessions
    /\ Len(reported) + Len(sync) <= MaxReports
    /\ LET s == made + 1
       IN  /\ domainUrl' = cleanDomainUrl(pUrl)
           /\ made' = s
           /\ domain' = s
           /\ sessions' =
                [sessions EXCEPT ![s] =
                    [NewDomainServer EXCEPT
                        !.onStateChanged = TRUE,
                        !.connects = <<cleanDomainUrl(pUrl)>>,
                        !.state = IF sync = <<>> THEN @ ELSE sync[1][1]]]
           /\ reported' = reported \o sync
           /\ observedConnected' = FALSE
           /\ lifeConnected' = HasConnected(sync)
           /\ lifeBuilt' = 0
           /\ UNCHANGED <<audioClient, emitted, config>>

\* --------------------------------------------------------------- actions
\* connect(pUrl) past its check: lines 106-114. sync is what the transport
\* reports inside DomainServer.connect.
ConnectBody(pUrl, sync) ==
    /\ made < MaxSessions
    /\ Len(reported) + Len(sync) <= MaxReports
    /\ LET s == made + 1
           h == handleSync(s, audioClient, emitted, sync)
       IN  /\ domainUrl' = cleanDomainUrl(pUrl)
           /\ made' = s
           /\ domain' = s
           /\ sessions' =
                [sessions EXCEPT ![s] =
                    [NewDomainServer EXCEPT
                        !.onStateChanged = TRUE,
                        !.connects = <<cleanDomainUrl(pUrl)>>,
                        !.state = IF sync = <<>> THEN @ ELSE sync[1][1]]]
           /\ audioClient' = h.audioClient
           /\ emitted' = h.emitted
           /\ reported' = reported \o sync
           /\ observedConnected' = HasConnected(sync)
           /\ lifeConnected' = HasConnected(sync)
           /\ lifeBuilt' = IF h.audioClient # audioClient THEN 1 ELSE 0
           /\ UNCHANGED config

\* connect without its check for a session already held.
ConnectUnguarded(pUrl, sync) ==
    /\ lastCall' = [op |-> "connect", arg |-> pUrl, live |-> domain # Undefined,
                    error |-> NoError]
    /\ ConnectBody(pUrl, sync)
    /\ UNCHANGED <<cleanVars, buildVars, wizardVars>>

\* connect(pUrl)
Connect(pUrl, sync) ==
    /\ lastCall' = [op |-> "connect", arg |-> pUrl, live |-> domain # Undefined,
                    error |-> IF domain # Undefined THEN AlreadyConnected
                              ELSE NoError]
    /\ IF domain # Undefined
       THEN /\ sync = <<>>
            /\ UNCHANGED <<domainUrl, domain, audioClient, emitted, config, made,
                           sessions, reported, observedConnected, lifeConnected,
                           lifeBuilt>>
       ELSE ConnectBody(pUrl, sync)
    /\ UNCHANGED <<cleanVars, buildVars, wizardVars>>

\* disconnect dropping the reference without asking the session to disconnect.
DisconnectBodyDropOnly(sync) ==
    /\ sync = <<>>
    /\ sessions' = [sessions EXCEPT ![domain].state = DISCONNECTED]
    /\ domain' = Undefined
    /\ UNCHANGED <<domainUrl, config, made, audioClient, emitted, reported,
                   observedConnected, lifeConnected, lifeBuilt>>

\* disconnect() on a held session: lines 121-122. sync is what the transport
\* reports inside DomainServer.disconnect, while the session is still held.
DisconnectBody(sync) ==
    /\ Len(reported) + Len(sync) <= MaxReports
    /\ LET h == handleSync(domain, audioClient, emitted, sync)
       IN  /\ sessions' =
                [sessions EXCEPT
                    ![domain].disconnects = @ + 1,
                    ![domain].state = DISCONNECTED]
           /\ audioClient' = h.audioClient
           /\ emitted' = h.emitted
           /\ reported' = reported \o sync
           /\ observedConnected' = (observedConnected \/ HasConnected(sync))
           /\ lifeConnected' = (lifeConnected \/ HasConnected(sync))
           /\ lifeBuilt' = IF h.audioClient # audioClient THEN lifeBuilt + 1
                           ELSE lifeBuilt
           /\ domain' = Undefined
    /\ UNCHANGED <<domainUrl, config, made>>

\* disconnect calling the session without testing that it holds one.
DisconnectUnguarded(sync) ==
    /\ lastCall' = [op |-> "disconnect", arg |-> <<>>, live |-> domain # Undefined,
                    error |-> IF domain # Undefined THEN NoError
                              ELSE "TypeError"]
    /\ IF domain # Undefined
       THEN DisconnectBody(sync)
       ELSE /\ sync = <<>>
            /\ UNCHANGED <<domainUrl, domain, audioClient, emitted, config, made,
                           sessions, reported, observedConnected, lifeConnected,
                           lifeBuilt>>
    /\ UNCHANGED <<cleanVars, buildVars, wizardVars>>

\* disconnect()
Disconnect(sync) ==
    /\ lastCall' = [op |-> "disconnect", arg |-> <<>>, live |-> domain # Undefined,
                    error |-> NoError]
    /\ IF domain # Undefined
       THEN DisconnectBody(sync)
       ELSE /\ sync = <<>>
            /\ UNCHANGED <<domainUrl, domain, audioClient, emitted, config, made,
                           sessions, reported, observedConnected, lifeConnected,
                           lifeBuilt>>
    /\ UNCHANGED <<cleanVars, buildVars, wizardVars>>

\* The transport sets the state of DomainServer s and calls its
\* onStateChanged callback, which connect bound to the manager's handler.
\* lastCall also keeps whether s is the session held (byLive) and what the
\* subscribers of the Signal found (seen).
ReportBody(s, pState, pInfo) ==
    /\ s \in 1..made
    /\ sessions[s].onStateChanged
    /\ Len(reported) < MaxReports
    /\ LET h == handleOnDomainStateChange(domain, audioClient, emitted, pState, pInfo)
       IN  /\ audioClient' = h.audioClient
           /\ emitted' = h.emitted
           /\ lifeBuilt' = IF h.audioClient # audioClient THEN lifeBuilt + 1
                           ELSE lifeBuilt
           /\ lastCall' = [op |-> "onStateChanged", arg |-> <<>>,
                           live |-> domain # Undefined, error |-> NoError,
                           byLive |-> s = domain, seen |-> h.seen]
    /\ reported' = Append(reported, <<pState, pInfo>>)
    /\ observedConnected' = (observedConnected \/ pState = CONNECTED)
    /\ lifeConnected' = (lifeConnected \/ (s = domain /\ pState = CONNECTED))
    /\ UNCHANGED <<domainUrl, domain, config, made>>
    /\ UNCHANGED <<cleanVars, buildVars, wizardVars>>

\* The handler answering a Refused or Error report of the held session by
\* issuing its connect again.
ReportRetrying(s, pState, pInfo) ==
    /\ ReportBody(s, pState, pInfo)
    /\ sessions' = [sessions EXCEPT
                        ![s].state = IF s = domain THEN pState ELSE @,
                        ![s].connects =
                            IF s = domain /\ pState \in {REFUSED, ERROR}
                            THEN Append(@, domainUrl) ELSE @]

\* The handler letting go of the held session when it reports Refused, Error
\* or Disconnected.
ReportReleasing(s, pState, pInfo) ==
    /\ s \in 1..made
    /\ sessions[s].onStateChanged
    /\ Len(reported) < MaxReports
    /\ LET h == handleOnDomainStateChange(domain, audioClient, emitted, pState, pInfo)
       IN  /\ audioClient' = h.audioClient
           /\ emitted' = h.emitted
           /\ lifeBuilt' = IF h.audioClient # audioClient THEN lifeBuilt + 1
                           ELSE lifeBuilt
           /\ lastCall' = [op |-> "onStateChanged", arg |-> <<>>,
                           live |-> domain # Undefined, error |-> NoError,
                           byLive |-> s = domain, seen |-> h.seen]
    /\ reported' = Append(reported, <<pState, pInfo>>)
    /\ observedConnected' = (observedConnected \/ pState = CONNECTED)
    /\ lifeConnected' = (lifeConnected \/ (s = domain /\ pState = CONNECTED))
    /\ domain' = IF s = domain /\ pState \in {REFUSED, ERROR, DISCONNECTED}
                 THEN Undefined ELSE domain
    /\ sessions' = [sessions EXCEPT
                        ![s].state = IF s = domain THEN pState ELSE @]
    /\ UNCHANGED <<domainUrl, config, made>>
    /\ UNCHANGED <<cleanVars, buildVars, wizardVars>>

Report(s, pState, pInfo) ==
    /\ ReportBody(s, pState, pInfo)
    /\ sessions' = [sessions EXCEPT
                        ![s].state = IF s = domain THEN pState ELSE @]

StorePersistentVariables ==
    /\ config' = ConfigSetItem(domainUrl)
    /\ lastCall' = [op |-> "storePersistentVariables", arg |-> <<>>,
                    live |-> domain # Undefined, error |-> NoError]
    /\ UNCHANGED <<domainUrl, domain, audioClient, emitted, made, sessions,
                   reported, observedConnected, lifeConnected, lifeBuilt>>
    /\ UNCHANGED <<cleanVars, buildVars, wizardVars>>

\* restorePersistentVariables setting the default whatever the store holds.
RestorePersistentVariablesDefault ==
    /\ domainUrl' = UNKNOWN
    /\ lastCall' = [op |-> "restorePersistentVariables", arg |-> <<>>,
                    live |-> domain # Undefined, error |-> NoError]
    /\ UNCHANGED <<domain, audioClient, emitted, config, made, sessions,
                   reported, observedConnected, lifeConnected, lifeBuilt>>
    /\ UNCHANGED <<cleanVars, buildVars, wizardVars>>

RestorePersistentVariables ==
    /\ domainUrl' = ConfigGetItem(config, UNKNOWN)
    /\ lastCall' = [op |-> "restorePersistentVariables", arg |-> <<>>,
                    live |-> domain # Undefined, error |-> NoError]
    /\ UNCHANGED <<domain, audioClient, emitted, config, made, sessions,
                   reported, observedConnected, lifeConnected, lifeBuilt>>
    /\ UNCHANGED <<cleanVars, buildVars, wizardVars>>

\* new Domain() on a store that keeps the run's Config item, as without.
ConstructNoRestore ==
    /\ domainUrl' = UNKNOWN
    /\ domain' = Undefined
    /\ audioClient' = Undefined
    /\ emitted' = <<>>
    /\ made' = 0
    /\ sessions' = [s \in 1..MaxSessions |-> NoDomainServer]
    /\ reported' = <<>>
    /\ lastCall' = [op |-> "constructor", arg |-> <<>>, live |-> FALSE,
                    error |-> NoError]
    /\ observedConnected' = FALSE
    /\ lifeConnected' = FALSE
    /\ lifeBuilt' = 0
    /\ UNCHANGED config
    /\ UNCHANGED <<cleanVars, buildVars, wizardVars>>

\* new Domain(): the application starts again on the same Config store; the
\* manager of the run before, its sessions and its Signal are gone.
Construct ==
    /\ domainUrl' = ConfigGetItem(config, UNKNOWN)
    /\ domain' = Undefined
    /\ audioClient' = Undefined
    /\ emitted' = <<>>
    /\ made' = 0
    /\ sessions' = [s \in 1..MaxSessions |-> NoDomainServer]
    /\ reported' = <<>>
    /\ lastCall' = [op |-> "constructor", arg |-> <<>>, live |-> FALSE,
                    error |-> NoError]
    /\ observedConnected' = FALSE
    /\ lifeConnected' = FALSE
    /\ lifeBuilt' = 0
    /\ UNCHANGED config
    /\ UNCHANGED <<cleanVars, buildVars, wizardVars>>

Next ==
    \/ \E pUrl \in ConnectUrls, sync \in ConnectReports : Connect(pUrl, sync)
    \/ \E sync \in DisconnectReports : Disconnect(sync)
    \/ \E s \in 1..MaxSessions, pState \in ConnectionState :
            \E pInfo \in Infos(pState) : Report(s, pState, pInfo)
    \/ StorePersistentVariables
    \/ RestorePersistentVariables
    \/ Construct

Spec == Init /\ [][Next]_vars


\* ------------------------------------------- the normalisation on its own
\* Input strings: up to MaxPieces pieces, each a scheme prefix (in either
\* case, whole or cut short) or a single letter, digit, ':' or '/'.
Pieces ==
    { <<"h", "t", "t", "p", ":", "/", "/">>,
      <<"H", "T", "T", "P", "S", ":", "/", "/">>,
      <<"w", "s", ":", "/", "/">>,
      <<"W", "S", "S", ":", "/", "/">>,
      <<"h", "t", "t", "p">>,
      <<"a">>, <<"A">>, <<"s">>, <<":">>, <<"/">>, <<"4">>, <<"0">> }

RECURSIVE Concat(_)
Concat(ps) == IF ps = <<>> THEN <<>> ELSE Head(ps) \o Concat(Tail(ps))

CleanInputs ==
    {Concat(ps) : ps \in UNION {[1..n -> Pieces] : n \in 0..MaxPieces}}

\* The inputs "http://example.com", "https://example.com:400", "example.com".
ExampleCom == <<"e", "x", "a", "m", "p", "l", "e", ".", "c", "o", "m">>
ExampleHttp == HttpPrefix \o ExampleCom
ExampleHttps400 == HttpsPrefix \o ExampleCom \o <<":", "4", "0", "0">>
\* The input "http://https://host".
ExampleHttpHttps == HttpPrefix \o HttpsPrefix \o <<"h", "o", "s", "t">>
ExampleInputs == {ExampleHttp, ExampleHttps400, ExampleCom, ExampleHttpHttps}

InitClean ==
    /\ config = NoItem
    /\ domainUrl = ConfigGetItem(config, UNKNOWN)
    /\ domain = Undefined
    /\ audioClient = Undefined
    /\ emitted = <<>>
    /\ made = 0
    /\ sessions = [s \in 1..MaxSessions |-> NoDomainServer]
    /\ reported = <<>>
    /\ lastCall = [op |-> "constructor", arg |-> <<>>, live |-> FALSE,
                   error |-> NoError]
    /\ observedConnected = FALSE
    /\ lifeConnected = FALSE
    /\ lifeBuilt = 0
    /\ urlIn \in CleanInputs \cup ExampleInputs
    /\ urlPrev = urlIn
    /\ urlOut = urlIn
    /\ cleanCalls = 0
    /\ BuildIdle
    /\ WizardIdle

\* Domain.cleanDomainUrl applied to the result of the call before it (to the
\* input, the first time).
CleanCall ==
    /\ cleanCalls < MaxCleanCalls
    /\ urlPrev' = urlOut
    /\ urlOut' = cleanDomainUrl(urlOut)
    /\ cleanCalls' = cleanCalls + 1
    /\ UNCHANGED urlIn
    /\ UNCHANGED <<domainVars, buildVars, wizardVars>>

NextClean == CleanCall

SpecClean == InitClean /\ [][NextClean]_vars



\* ------------------------------------------------- the Shape entity builder
\* Entity Records: an identifier and the kind tag; the builder reads neither.
EntityKinds == {"Shape", "Model", "Zone"}
Entity(id, type) == [id |-> id, type |-> type]

\* new ShapeEntityController(entity as IShapeEntity)
ShapeEntityController(entity) ==
    [componentType |-> "ShapeEntityController", entity |-> entity]

\* A component some other part of the application has added to a GameObject.
OtherComponent == [componentType |-> "Other", entity |-> Entity(0, "None")]

\* GameObject.addComponent(component) on a GameObject whose components are cs.
addComponent(cs, component) == Append(cs, component)

\* ShapeEntityBuilder.build adding the controller twice.
buildTwice(cs, entity) ==
    addComponent(addComponent(cs, ShapeEntityController(entity)),
                 ShapeEntityController(entity))

\* ShapeEntityBuilder.build(gameObject, entity): the components of gameObject
\* after it.
build(cs, entity) == addComponent(cs, ShapeEntityController(entity))

\* The GameObjects that direct calls of build are made on, and the records
\* they are made with.
GameObjectIds == {1, 2}
BuildEntities == {Entity(id, type) : id \in {1, 2}, type \in {"Shape", "Model"}}

DomainIdle ==
    /\ config = NoItem
    /\ domainUrl = ConfigGetItem(config, UNKNOWN)
    /\ domain = Undefined
    /\ audioClient = Undefined
    /\ emitted = <<>>
    /\ made = 0
    /\ sessions = [s \in 1..MaxSessions |-> NoDomainServer]
    /\ reported = <<>>
    /\ lastCall = [op |-> "constructor", arg |-> <<>>, live |-> FALSE,
                   error |-> NoError]
    /\ observedConnected = FALSE
    /\ lifeConnected = FALSE
    /\ lifeBuilt = 0

CleanIdle ==
    /\ urlIn = <<>>
    /\ urlPrev = <<>>
    /\ urlOut = <<>>
    /\ cleanCalls = 0

InitBuild ==
    /\ DomainIdle
    /\ CleanIdle
    /\ WizardIdle
    /\ gameObjects \in [GameObjectIds -> {<<>>, <<OtherComponent>>}]
    /\ buildCalls = <<>>
    /\ batch = <<>>
    /\ pos = 0
    /\ raised = <<>>

\* A caller invokes build(gameObject g, entity).
Build(g, entity) ==
    /\ Len(buildCalls) < MaxBuilds
    /\ gameObjects' = [gameObjects EXCEPT ![g] = build(@, entity)]
    /\ buildCalls' = Append(buildCalls, <<g, entity>>)
    /\ UNCHANGED <<batch, pos, raised>>
    /\ UNCHANGED <<domainVars, cleanVars, wizardVars>>

NextBuild == \E g \in GameObjectIds, entity \in BuildEntities : Build(g, entity)

SpecBuild == InitBuild /\ [][NextBuild]_vars

\* ------------------------------------------------- registry and dispatch
\* The kinds a builder is registered for, and getBuilder's failure.
RegisteredKinds == {"Shape"}
UnknownEntityKind == "UnknownEntityKind"

\* Batches: up to MaxBatch records, identifiers distinct, of any kind.
Batches ==
    UNION {{[i \in 1..n |-> Entity(i, kinds[i])] : kinds \in [1..n -> EntityKinds]} :
                n \in 0..MaxBatch}

InitDispatch ==
    /\ DomainIdle
    /\ CleanIdle
    /\ WizardIdle
    /\ gameObjects = <<>>
    /\ buildCalls = <<>>
    /\ batch \in Batches
    /\ pos = 0
    /\ raised = <<>>

\* Dispatch that gives up the batch at a record of an unregistered kind.
DispatchNextAborting ==
    /\ pos < Len(batch)
    /\ LET entity == batch[pos + 1]
       IN  IF entity.type \in RegisteredKinds
           THEN /\ gameObjects' = (entity.id :> build(<<>>, entity)) @@ gameObjects
                /\ buildCalls' = Append(buildCalls, <<entity.id, entity>>)
                /\ pos' = pos + 1
                /\ UNCHANGED raised
           ELSE /\ raised' = Append(raised, <<UnknownEntityKind, entity.id>>)
                /\ pos' = Len(batch)
                /\ UNCHANGED <<gameObjects, buildCalls>>
    /\ UNCHANGED batch
    /\ UNCHANGED <<domainVars, cleanVars, wizardVars>>

\* Dispatch of the next record: fetch the builder of its kind; with one, make
\* the GameObject keyed by the record's identifier and build it; without,
\* raise UnknownEntityKind for the record and go on.
DispatchNext ==
    /\ pos < Len(batch)
    /\ LET entity == batch[pos + 1]
       IN  IF entity.type \in RegisteredKinds
           THEN /\ gameObjects' = (entity.id :> build(<<>>, entity)) @@ gameObjects
                /\ buildCalls' = Append(buildCalls, <<entity.id, entity>>)
                /\ UNCHANGED raised
           ELSE /\ raised' = Append(raised, <<UnknownEntityKind, entity.id>>)
                /\ UNCHANGED <<gameObjects, buildCalls>>
    /\ pos' = pos + 1
    /\ UNCHANGED batch
    /\ UNCHANGED <<domainVars, cleanVars, wizardVars>>

NextDispatch == DispatchNext

SpecDispatch == InitDispatch /\ [][NextDispatch]_vars


\* ------------------------------------------------ the first-time-setup wizard
\* The steps of the stepper.
Steps == 1..4

InitWizard ==
    /\ DomainIdle
    /\ CleanIdle
    /\ BuildIdle
    /\ WizardIdle

\* transitionToSteps(): the Start button, or the Enter key at any time.
TransitionToSteps ==
    /\ timers < MaxTimers
    /\ transition' = TRUE
    /\ timers' = timers + 1
    /\ wizardLast' = "transitionToSteps"
    /\ UNCHANGED <<showInitialWelcome, step>>
    /\ UNCHANGED <<domainVars, cleanVars, buildVars>>

\* The callback transitionToSteps gave to window.setTimeout runs.
TimeoutFires ==
    /\ timers > 0
    /\ showInitialWelcome' = FALSE
    /\ timers' = timers - 1
    /\ wizardLast' = "timeout"
    /\ UNCHANGED <<transition, step>>
    /\ UNCHANGED <<domainVars, cleanVars, buildVars>>

\* transitionToStart(): the back button, or the Escape key at any time.
TransitionToStart ==
    /\ transition' = FALSE
    /\ showInitialWelcome' = TRUE
    /\ step' = 1
    /\ wizardLast' = "transitionToStart"
    /\ UNCHANGED timers
    /\ UNCHANGED <<domainVars, cleanVars, buildVars>>

\* A Continue or Next button of the stepper, rendered with the steps.
StepperNext ==
    /\ ~showInitialWelcome
    /\ step + 1 \in Steps
    /\ step' = step + 1
    /\ wizardLast' = "next"
    /\ UNCHANGED <<showInitialWelcome, transition, timers>>
    /\ UNCHANGED <<domainVars, cleanVars, buildVars>>

\* A Back button of the stepper.
StepperPrevious ==
    /\ ~showInitialWelcome
    /\ step - 1 \in Steps
    /\ step' = step - 1
    /\ wizardLast' = "previous"
    /\ UNCHANGED <<showInitialWelcome, transition, timers>>
    /\ UNCHANGED <<domainVars, cleanVars, buildVars>>

NextWizard ==
    \/ TransitionToSteps
    \/ TimeoutFires
    \/ TransitionToStart
    \/ StepperNext
    \/ StepperPrevious

SpecWizard == InitWizard /\ [][NextWizard]_vars

\* ----------------------------------------------------------------- claims
Last(seq) == seq[Len(seq)]

\* C1: connect on a manager that holds a session, in whatever state, ends
\* with the AlreadyConnected error and changes nothing: no session is
\* constructed, no session is touched, the held session, its handler, the
\* audio client, the Signal and DomainUrl are as before.
C1_ConnectWhileLiveFails ==
    [][(lastCall'.op = "connect" /\ domain # Undefined) =>
            /\ lastCall'.error = AlreadyConnected
            /\ UNCHANGED <<domainUrl, domain, audioClient, emitted, config, made,
                           sessions, reported>>]_vars

\* A connect with another URL has just failed on a held session.
C1_Witness ==
    /\ lastCall.op = "connect"
    /\ lastCall.error = AlreadyConnected
    /\ domain # Undefined
    /\ sessions[domain].state = REFUSED
    /\ cleanDomainUrl(lastCall.arg) # domainUrl

\* C2: an Audio Session exists if and only if a session is held and the
\* manager has observed Connected since that session was created.
C2_AudioIffObservedConnected ==
    (audioClient # Undefined) <=> (domain # Undefined /\ observedConnected)

\* C3: right after any disconnect the manager holds neither a Connection
\* Session nor an Audio Session.
C3_DisconnectDiscardsBoth ==
    lastCall.op = "disconnect" =>
        (domain = Undefined /\ audioClient = Undefined)

\* C4: within the lifetime of the held session the number of Audio Session
\* constructions is 1 if that session has reported Connected and 0 otherwise.
C4_OneAudioPerLifetime ==
    domain # Undefined => lifeBuilt = (IF lifeConnected THEN 1 ELSE 0)

\* C5: every state the transport reports to the handler yields exactly one
\* emission carrying (this manager, the display string of that state, the
\* reported info), in the order of the reports.
C5_OneEmissionPerReport ==
    /\ Len(emitted) = Len(reported)
    /\ \A i \in 1..Len(reported) :
            emitted[i] = [d |-> "this",
                          newState |-> stateToString(reported[i][1]),
                          info |-> reported[i][2]]

\* The same state has been reported twice in a row, with different infos.
C5_Witness ==
    /\ Len(reported) = 2
    /\ reported[1][1] = reported[2][1]
    /\ reported[1][2] # reported[2][2]
    /\ Len(emitted) = 2

\* C6: after a connect that ended without error the Config item under the
\* connection-URL key equals cleanDomainUrl(url) and equals DomainUrl.
C6_ConnectPersistsUrl ==
    (lastCall.op = "connect" /\ lastCall.error = NoError) =>
        /\ config.has
        /\ config.value = cleanDomainUrl(lastCall.arg)
        /\ config.value = DomainUrl

\* C7: disconnect on a manager that holds no session raises nothing and
\* changes nothing: no session is called, the Signal emits nothing, DomainUrl,
\* the session reference and the audio client are as before.
C7_DisconnectIdleIsNoop ==
    [][(lastCall'.op = "disconnect" /\ domain = Undefined) =>
            /\ lastCall'.error = NoError
            /\ UNCHANGED <<domainUrl, domain, audioClient, emitted, config, made,
                           sessions, reported>>]_vars

\* disconnect has just run on a manager that had already dropped a session.
C7_Witness ==
    /\ lastCall.op = "disconnect"
    /\ ~lastCall.live
    /\ made > 0
    /\ sessions[made].disconnects = 1

\* C8: DomainState is the raw state of the held session, or Disconnected when
\* none is held; DomainStateAsString is the display string of that value;
\* right after disconnect both read Disconnected.
C8_DomainStateReflectsSession ==
    /\ domain # Undefined => DomainState = sessions[domain].state
    /\ domain = Undefined => DomainState = DISCONNECTED
    /\ DomainStateAsString = stateToString(DomainState)
    /\ lastCall.op = "disconnect" =>
            (DomainState = DISCONNECTED /\ DomainStateAsString = "DISCONNECTED")

\* disconnect has just dropped the only session made, whose last report was
\* Connected.
C8_Witness ==
    /\ lastCall.op = "disconnect"
    /\ lastCall.live
    /\ made = 1
    /\ reported # <<>>
    /\ Last(reported)[1] = CONNECTED

\* C9: isConnected is true exactly when a session is held and its raw state
\* is Connected.
C9_IsConnected ==
    /\ isConnected <=> (domain # Undefined /\ sessions[domain].state = CONNECTED)
    /\ domain = Undefined => ~isConnected
    /\ (domain # Undefined /\
        sessions[domain].state \in {DISCONNECTED, CONNECTING, REFUSED, ERROR})
            => ~isConnected

\* The held session was Connected and has just reported Error.
C9_Witness ==
    /\ lastCall.op = "onStateChanged"
    /\ domain # Undefined
    /\ sessions[domain].state = ERROR
    /\ audioClient = contextID(domain)

\* C10: cleanDomainUrl(cleanDomainUrl(x)) = cleanDomainUrl(x) for every
\* input x.
C10_CleanIdempotent ==
    cleanCalls >= 2 => urlOut = urlPrev

\* An input with an upper-case https:// prefix and no port has been cleaned
\* twice.
C10_Witness ==
    /\ cleanCalls = 2
    /\ startsWith(toLowerCase(urlIn), HttpsPrefix)
    /\ urlIn # toLowerCase(urlIn)
    /\ ~ifPort(urlIn)
    /\ urlOut # urlIn


\* The three example inputs give the default protocol, the host and the
\* default port, or the port 400 the input names.
C11_Examples ==
    /\ urlIn \in {ExampleHttp, ExampleCom} =>
            urlOut = DefaultDomainProtocol \o <<"/", "/">> \o ExampleCom
                        \o <<":">> \o DefaultDomainPort
    /\ urlIn = ExampleHttps400 =>
            urlOut = DefaultDomainProtocol \o <<"/", "/">> \o ExampleCom
                        \o <<":", "4", "0", "0">>

\* C11 as stated: the three examples, and every input that starts with
\* http:// or https:// is cleaned to the same string as the input without
\* that prefix.
C11_SchemeDroppedAlways ==
    cleanCalls = 1 =>
        /\ C11_Examples
        /\ startsWith(toLowerCase(urlIn), HttpPrefix) =>
                urlOut = cleanDomainUrl(substring(urlIn, 7))
        /\ startsWith(toLowerCase(urlIn), HttpsPrefix) =>
                urlOut = cleanDomainUrl(substring(urlIn, 8))

\* C11 (amended): the three examples; an http:// input whose rest does not
\* start with http:// again, and an https:// input whose rest starts with
\* neither http:// nor https://, are cleaned to the same string as the rest.
C11_SchemeDropped ==
    cleanCalls = 1 =>
        /\ C11_Examples
        /\ (/\ startsWith(toLowerCase(urlIn), HttpPrefix)
            /\ ~startsWith(toLowerCase(substring(urlIn, 7)), HttpPrefix)) =>
                urlOut = cleanDomainUrl(substring(urlIn, 7))
        /\ (/\ startsWith(toLowerCase(urlIn), HttpsPrefix)
            /\ ~startsWith(toLowerCase(substring(urlIn, 8)), HttpPrefix)
            /\ ~startsWith(toLowerCase(substring(urlIn, 8)), HttpsPrefix)) =>
                urlOut = cleanDomainUrl(substring(urlIn, 8))

\* "https://example.com:400" has been cleaned once.
C11_Witness ==
    /\ cleanCalls = 1
    /\ urlIn = ExampleHttps400
    /\ urlOut = <<"w", "s", ":", "/", "/">> \o ExampleCom \o <<":", "4", "0", "0">>

\* s ends with ':' followed by one or more digits.
EndsWithPort(s) ==
    \E i \in 1..(Len(s) - 1) :
        s[i] = ":" /\ \A j \in (i + 1)..Len(s) : s[j] \in Digits

\* C12: every result of cleanDomainUrl is lower-case, starts with the
\* websocket scheme prefix and ends with ':' followed by one or more digits.
C12_NormalizedAddress ==
    cleanCalls >= 1 =>
        /\ urlOut = toLowerCase(urlOut)
        /\ startsWith(urlOut, WsPrefix)
        /\ EndsWithPort(urlOut)


\* What the manager has done to DomainServer s: the connect calls it issued,
\* the number of disconnect calls, whether it set the callback.
Handled(s) ==
    <<sessions[s].connects, sessions[s].disconnects, sessions[s].onStateChanged>>

\* C13: a session is constructed and its connect issued only inside a
\* connect() call that succeeds, once per such call, so every session made
\* has had exactly one transport connect; a report, Refused and Error
\* included, makes no session, issues no connect and no disconnect, and
\* leaves the held session and DomainUrl alone.
C13_NoRetry ==
    /\ [](\A s \in 1..MaxSessions :
            Len(sessions[s].connects) = (IF s <= made THEN 1 ELSE 0))
    /\ [][/\ (made' > made \/ \E s \in 1..MaxSessions :
                    Len(sessions'[s].connects) > Len(sessions[s].connects)) =>
                (/\ lastCall'.op = "connect"
                 /\ lastCall'.error = NoError
                 /\ made' = made + 1)
          /\ lastCall'.op = "onStateChanged" =>
                (/\ UNCHANGED <<made, domain, domainUrl>>
                 /\ \A s \in 1..MaxSessions : Handled(s)' = Handled(s))]_vars

\* The only session made is held and has just reported Refused.
C13_Witness ==
    /\ lastCall.op = "onStateChanged"
    /\ lastCall.byLive
    /\ Last(reported)[1] = REFUSED
    /\ made = 1
    /\ domain = 1
    /\ sessions[1].connects = <<domainUrl>>
    /\ sessions[1].disconnects = 0

\* C14: connect needs no report of the transport to complete: it can run to
\* its end whenever no session is held, and at its return the new session is
\* held, has the handler set and its connect issued, whatever its state.
C14_ConnectReturnsAtOnce ==
    /\ (lastCall.op = "connect" /\ lastCall.error = NoError) =>
            /\ domain # Undefined
            /\ domain = made
            /\ sessions[domain].onStateChanged
            /\ sessions[domain].connects = <<domainUrl>>
    /\ (domain = Undefined /\ made < MaxSessions) =>
            ENABLED (\E pUrl \in ConnectUrls : Connect(pUrl, <<>>))

\* connect has returned and the transport has reported nothing at all: the
\* session held is not Connected.
C14_Witness ==
    /\ lastCall.op = "connect"
    /\ lastCall.error = NoError
    /\ reported = <<>>
    /\ emitted = <<>>
    /\ domain # Undefined
    /\ ~isConnected

\* C15: of the sessions the manager has constructed at most one has not been
\* asked to disconnect, and it is the one held: every session dropped was
\* asked to disconnect first, and none is constructed while one is held.
C15_OneLiveSession ==
    /\ domain \in {Undefined, made}
    /\ \A s \in 1..MaxSessions :
            (s <= made /\ s # domain) => sessions[s].disconnects >= 1
    /\ Cardinality({s \in 1..MaxSessions :
                        s <= made /\ sessions[s].disconnects = 0}) <= 1

\* A second session is held after the first was asked to disconnect.
C15_Witness ==
    /\ made = 2
    /\ domain = 2
    /\ sessions[1].disconnects = 1
    /\ sessions[2].disconnects = 0

\* C16: right after construction DomainUrl is the value stored under the
\* connection-URL key, or "UNKNOWN" when nothing is stored; no session and no
\* audio client exist and the Signal has emitted nothing.
C16_ConstructorRestores ==
    lastCall.op = "constructor" =>
        /\ config.has => DomainUrl = config.value
        /\ ~config.has => DomainUrl = UNKNOWN
        /\ domain = Undefined
        /\ audioClient = Undefined
        /\ emitted = <<>>

\* A manager has just been constructed on a store that holds the URL which
\* an earlier run connected to and stored.
C16_Witness ==
    /\ lastCall.op = "constructor"
    /\ config.has
    /\ config.value = cleanDomainUrl(<<"H", "T", "T", "P", ":", "/", "/", "a", ":", "4">>)
    /\ DomainUrl = config.value

\* C19: the Signal is emitted inside the callback (one emission is there as
\* soon as the report is), and when the held session reports Connected the
\* manager holds an audio client while the subscribers run.
C19_AudioBeforeEmit ==
    /\ Len(emitted) = Len(reported)
    /\ (/\ lastCall.op = "onStateChanged"
        /\ lastCall.byLive
        /\ Last(emitted).newState = "CONNECTED") =>
            lastCall.seen # Undefined

\* The held session has just reported Connected for the first time and the
\* subscribers found the audio client built for it.
C19_Witness ==
    /\ lastCall.op = "onStateChanged"
    /\ lastCall.byLive
    /\ Len(emitted) = 1
    /\ Last(emitted).newState = "CONNECTED"
    /\ lifeBuilt = 1
    /\ lastCall.seen = contextID(domain)

\* C20: the session held always has the manager's handler set and its connect
\* issued, and every report, one made inside the transport's connect
\* included, is emitted in the step that makes it.
C20_NoReportMissed ==
    /\ [](domain # Undefined =>
            (sessions[domain].onStateChanged /\ Len(sessions[domain].connects) = 1))
    /\ [][Len(reported') > Len(reported) =>
            /\ Len(emitted') = Len(emitted) + 1
            /\ Len(reported') = Len(reported) + 1
            /\ Last(emitted') = [d |-> "this",
                                 newState |-> stateToString(Last(reported')[1]),
                                 info |-> Last(reported')[2]]]_vars

\* connect has just returned and the transport reported Connecting inside
\* it, which the Signal emitted.
C20_Witness ==
    /\ lastCall.op = "connect"
    /\ lastCall.error = NoError
    /\ reported = <<<<CONNECTING, "">>>>
    /\ Len(emitted) = 1
    /\ emitted[1].newState = "CONNECTING"


\* C17: one call build(g, record) appends to g exactly one component, the
\* Shape controller of that record, keeps the components g had, and touches
\* no other GameObject: each call makes g one component longer.
C17_BuildAddsOne ==
    [][buildCalls' # buildCalls =>
            LET g == Last(buildCalls')[1]
                entity == Last(buildCalls')[2]
            IN  /\ gameObjects'[g] =
                        Append(gameObjects[g], ShapeEntityController(entity))
                /\ Len(gameObjects'[g]) = Len(gameObjects[g]) + 1
                /\ \A o \in DOMAIN gameObjects :
                        o # g => gameObjects'[o] = gameObjects[o]]_vars

\* build has been called twice on GameObject 1, which had a component
\* before: it has three now.
C17_Witness ==
    /\ Len(buildCalls) = 2
    /\ buildCalls[1][1] = 1
    /\ buildCalls[2][1] = 1
    /\ Len(gameObjects[1]) = 3
    /\ gameObjects[1][1] = OtherComponent

Count(seq, x) == Cardinality({i \in 1..Len(seq) : seq[i] = x})

\* C18: every record handled so far of an unregistered kind has raised
\* UnknownEntityKind once and has no GameObject and no build call; every one
\* of a registered kind has been built exactly once; records not handled yet
\* have neither; and dispatch can go on while records remain.
C18_UnknownKindReported ==
    /\ \A i \in 1..Len(batch) :
            LET entity == batch[i]
            IN  /\ (i <= pos /\ entity.type \notin RegisteredKinds) =>
                        /\ Count(raised, <<UnknownEntityKind, entity.id>>) = 1
                        /\ entity.id \notin DOMAIN gameObjects
                        /\ Count(buildCalls, <<entity.id, entity>>) = 0
                /\ (i <= pos /\ entity.type \in RegisteredKinds) =>
                        /\ Count(raised, <<UnknownEntityKind, entity.id>>) = 0
                        /\ entity.id \in DOMAIN gameObjects
                        /\ gameObjects[entity.id] = <<ShapeEntityController(entity)>>
                        /\ Count(buildCalls, <<entity.id, entity>>) = 1
                /\ i > pos =>
                        /\ Count(raised, <<UnknownEntityKind, entity.id>>) = 0
                        /\ entity.id \notin DOMAIN gameObjects
    /\ Len(raised) + Len(buildCalls) = pos
    /\ pos < Len(batch) => ENABLED DispatchNext

\* A batch Shape, Zone, Shape has been dispatched to its end.
C18_Witness ==
    /\ Len(batch) = 3
    /\ pos = 3
    /\ batch[1].type = "Shape"
    /\ batch[2].type = "Zone"
    /\ batch[3].type = "Shape"
    /\ raised = <<<<UnknownEntityKind, 2>>>>
    /\ DOMAIN gameObjects = {1, 3}


\* C21: an input that, lower-cased, starts with http:// or https:// loses
\* exactly that one prefix: the result is the protocol and port rules applied
\* to the rest of the lower-cased input as it stands.
C21_OnePrefixStripped ==
    cleanCalls = 1 =>
        LET url0 == toLowerCase(urlIn)
        IN  /\ startsWith(url0, HttpPrefix) =>
                    urlOut = protocolAndPort(substring(url0, 7))
            /\ startsWith(url0, HttpsPrefix) =>
                    urlOut = protocolAndPort(substring(url0, 8))


\* C22: whenever an audio client is constructed, the step is a report of
\* Connected made by the session held, and the context handle given to the
\* audio client is that session's: a report of a dropped session constructs
\* none for the session held.
C22_AudioForReporter ==
    [][(audioClient' # audioClient /\ audioClient' # Undefined) =>
            /\ lastCall'.op = "onStateChanged"
            /\ Last(reported')[1] = CONNECTED
            /\ lastCall'.byLive
            /\ audioClient' = contextID(domain)]_vars


\* C23: a report that reaches the handler while no session is held (its
\* session was dropped by disconnect) is emitted once, with the display string
\* of the reported state and its info, constructs no audio client, Connected
\* or not, and leaves the manager reading Disconnected.
C23_StaleReportEmitted ==
    [][(lastCall'.op = "onStateChanged" /\ ~lastCall'.live) =>
            /\ emitted' = Append(emitted,
                    [d |-> "this",
                     newState |-> stateToString(Last(reported')[1]),
                     info |-> Last(reported')[2]])
            /\ audioClient' = audioClient
            /\ lifeBuilt' = lifeBuilt
            /\ domain' = Undefined
            /\ DomainState' = DISCONNECTED
            /\ DomainStateAsString' = "DISCONNECTED"]_vars

\* A dropped session has just reported Connected with no session held: the
\* report was emitted and there is no audio client.
C23_Witness ==
    /\ lastCall.op = "onStateChanged"
    /\ ~lastCall.live
    /\ made >= 1
    /\ Last(reported)[1] = CONNECTED
    /\ Last(emitted).newState = "CONNECTED"
    /\ audioClient = Undefined
    /\ DomainState = DISCONNECTED


\* The states a transport failure or a loss of the connection is reported as.
Released == {REFUSED, ERROR, DISCONNECTED}

\* C24: a report of Refused, Error or Disconnected leaves the session held;
\* while the session held is in such a state every connect fails with
\* AlreadyConnected and changes nothing, and disconnect drops it; a connect
\* made with no session held succeeds, on a session never used before.
C24_ReportKeepsSession ==
    [][/\ (lastCall'.op = "onStateChanged" /\ Last(reported')[1] \in Released) =>
            /\ domain' = domain
            /\ lastCall'.byLive =>
                    /\ domain' # Undefined
                    /\ sessions'[domain'].state = Last(reported')[1]
       /\ (/\ lastCall'.op = "connect"
           /\ domain # Undefined
           /\ sessions[domain].state \in Released) =>
                /\ lastCall'.error = AlreadyConnected
                /\ domain' = domain
                /\ made' = made
                /\ sessions' = sessions
       /\ (/\ lastCall'.op = "disconnect"
           /\ domain # Undefined
           /\ sessions[domain].state \in Released) =>
                /\ domain' = Undefined
                /\ sessions'[domain].disconnects = sessions[domain].disconnects + 1
       /\ (lastCall'.op = "connect" /\ domain = Undefined) =>
                /\ lastCall'.error = NoError
                /\ domain' = made + 1
                /\ sessions[domain'] = NoDomainServer
                /\ sessions'[domain'].connects = <<domainUrl'>>]_vars

\* The first session reported Refused and was disconnected; the session made
\* by the connect after it reported Error, and a further connect has just
\* failed on it.
C24_Witness ==
    /\ made = 2
    /\ domain = 2
    /\ sessions[1].disconnects = 1
    /\ Len(reported) = 2
    /\ reported[1][1] = REFUSED
    /\ reported[2][1] = ERROR
    /\ sessions[2].state = ERROR
    /\ lastCall.op = "connect"
    /\ lastCall.error = AlreadyConnected


\* C25: storePersistentVariables leaves in the store the URL the manager
\* has, and nothing else writes the store; restorePersistentVariables and the
\* constructor set the URL to what the store holds; restorePersistentVariables
\* changes neither the session, nor the audio client, nor the Signal.
C25_StoreRestoreRoundTrip ==
    [][/\ lastCall'.op = "storePersistentVariables" =>
            /\ ConfigGetItem(config', UNKNOWN) = domainUrl
            /\ domainUrl' = domainUrl
       /\ lastCall'.op # "storePersistentVariables" => config' = config
       /\ lastCall'.op \in {"restorePersistentVariables", "constructor"} =>
            domainUrl' = ConfigGetItem(config, UNKNOWN)
       /\ lastCall'.op = "restorePersistentVariables" =>
            UNCHANGED <<domain, audioClient, emitted, sessions>>]_vars

\* A URL the store did not start with was stored, a connect to another
\* address changed the manager's URL, and restorePersistentVariables has just
\* brought the stored one back, with the session still held.
C25_Witness ==
    /\ lastCall.op = "restorePersistentVariables"
    /\ config.has
    /\ config.value # cleanDomainUrl(<<"a">>)
    /\ domainUrl = config.value
    /\ domain # Undefined
    /\ sessions[domain].connects # <<domainUrl>>
    /\ emitted # <<>>


\* C26: whenever the colour splash is not in its opened style (transition
\* false), as after transitionToStart, the welcome screen is rendered.
C26_WelcomeShownAfterStart ==
    ~transition => showInitialWelcome

====
